---- MODULE Spec2Model ----
(***************************************************************************)
(* Drag-and-solve equation tool: the three prototypes                       *)
(*   variant 1  mathgodzilla.py         whole-term dragging                 *)
(*   variant 2  mathgodzillatwo.py      coefficient / variable sub-tokens   *)
(*   variant 3  mathgodzillatwotrig.py  function tokens with inversion      *)
(* modelled as one state machine whose variable `variant` says which of     *)
(* the three programs is running.                                           *)
(*                                                                          *)
(* Symbolic values.  A term of the initial sum is a monomial q*a: a         *)
(* rational q = <<numerator, denominator>> times an atom a = [f, arg]       *)
(* (f the head of the sympy node, arg its argument).  A sum (lhs_expr) is   *)
(* the set of its monomials, one per atom, none with coefficient zero, so   *)
(* that equal sums are equal sets, as sympy's automatic collection of like  *)
(* terms makes them.  sp.Eq(lhs_expr, 0) is kept as the pair it is built     *)
(* from; sp.solve, sp.integrate and sp.diff are an oracle that returns a    *)
(* result determined by the equation or raises.                             *)
(*                                                                          *)
(* The loop is modelled one event at a time.  running is the loop flag, pc  *)
(* the position of the program: "loop" while events are handled, "exited"   *)
(* once the while condition has failed, "crashed" after an exception that   *)
(* nothing catches.  selected_object is the index of the selected token in  *)
(* the store (variant 1: of the selected key in the dict), 0 for None.      *)
(***************************************************************************)
EXTENDS Integers, Sequences, FiniteSets, TLC

VARIABLES variant, terms_list, draggable_objects, dragging, selected_object,
          solution, history, running, pc

vars == <<variant, terms_list, draggable_objects, dragging, selected_object,
          solution, history, running, pc>>

----------------------------------------------------------------------------
(* Bounds of the exploration *)

MaxTerms == 2
MaxHistory == 2
MaxRoundTrip == 4
MaxLog == 7

----------------------------------------------------------------------------
(* Program constants *)

WIDTH12 == 1000
WIDTH3 == 1200
FirstX1 == 200
FirstX23 == 150
Pitch12 == 150
Pitch3 == 180
VarOffset == 60
TokenY == 200
HistoryWindow == 5
BoxLeft == 50
BoxRight == 100
BoxUp == 20
BoxDown == 40

WIDTH(v) == IF v = 3 THEN WIDTH3 ELSE WIDTH12

NoGroup == -1
NoSelection == 0

----------------------------------------------------------------------------
(* Rational numbers <<n, d>>, d > 0, in lowest terms *)

Abs(n) == IF n < 0 THEN -n ELSE n

RECURSIVE GCD(_, _)
GCD(a, b) == IF b = 0 THEN a ELSE GCD(b, a % b)

RatNorm(n, d) ==
    LET s == IF d < 0 THEN -1 ELSE 1
        g == GCD(Abs(n), Abs(d))
    IN  <<(s * n) \div g, (s * d) \div g>>

Rat(n) == <<n, 1>>
RatAdd(p, q) == RatNorm(p[1] * q[2] + q[1] * p[2], p[2] * q[2])
RatMul(p, q) == RatNorm(p[1] * q[1], p[2] * q[2])
RatDiv(p, q) == RatNorm(p[1] * q[2], p[2] * q[1])

----------------------------------------------------------------------------
(* Atoms and monomials *)

One == [f |-> "One", arg |-> ""]
SymX == [f |-> "Symbol", arg |-> "x"]
Fn(f, a) == [f |-> f, arg |-> a]

Mono(q, a) == [q |-> q, a |-> a]
\* sp.Integer(q): the integer part of a number, as a sympy Integer
Integer(q) ==
    Mono(Rat(IF q[1] >= 0 THEN q[1] \div q[2] ELSE -((-q[1]) \div q[2])), One)
Term(c, a) == Mono(Rat(c), a)

\* term.has(x): every atom but the constant one contains x
Has_x(t) == t.a # One
\* term.is_Mul: a non-constant atom with a coefficient other than 1, or a
\* product atom
Is_Mul(t) == t.a # One /\ (t.q # Rat(1) \/ t.a.f = "Mul")
\* isinstance(e, sp.Function)
FunctionHeads == {"sin", "cos", "tan", "exp", "tanh",
                  "asin", "acos", "atan", "log", "atanh"}
Is_Function(t) == t.q = Rat(1) /\ t.a.f \in FunctionHeads

\* a product in which at least one factor is a number
MonoMul(m, n) ==
    IF m.a = One THEN Mono(RatMul(m.q, n.q), n.a)
    ELSE Mono(RatMul(m.q, n.q), m.a)
\* n / m for a number m
MonoDiv(n, m) == Mono(RatDiv(n.q, m.q), n.a)
\* 1 / m for a number m
MonoInv(m) == Mono(RatDiv(Rat(1), m.q), One)
MonoSign(s, m) == Mono(RatMul(Rat(s), m.q), m.a)

\* lhs_expr += m
Add(e, m) ==
    IF \E k \in e : k.a = m.a
    THEN LET k == CHOOSE k \in e : k.a = m.a
             s == RatAdd(k.q, m.q)
         IN  IF s[1] = 0 THEN e \ {k} ELSE (e \ {k}) \cup {Mono(s, m.a)}
    ELSE IF m.q[1] = 0 THEN e ELSE e \cup {m}

Zero == {}

\* the coefficient of atom a in the sum e
Coefficient(e, a) ==
    IF \E k \in e : k.a = a THEN (CHOOSE k \in e : k.a = a).q ELSE Rat(0)

\* sp.Eq(lhs_expr, 0)
Eq(e) == [rel |-> "Eq", lhs |-> e]
NoEq == [rel |-> "None", lhs |-> {}]

\* str(...) of a symbolic value: the label shown for a token
Str(m) == <<"str", m>>

----------------------------------------------------------------------------
(* Tokens.  Variant 1 keeps a dict keyed by label with fields expr, pos and  *)
(* location; it is held in the same record, in insertion order, with the     *)
(* fields it lacks fixed (id the insertion index, no group, part "single",   *)
(* inverted FALSE).                                                          *)

Object(id, group, part, text, expr_value, pos) ==
    [id |-> id, group |-> group, part |-> part, text |-> text,
     expr |-> expr_value, pos |-> pos, location |-> "lhs", inverted |-> FALSE]

\* add_draggable_object storing the object id where the group id belongs
add_draggable_object_GroupFromId(store, group, part, text, expr_value, pos) ==
    Append(store, Object(Len(store), IF group = NoGroup THEN NoGroup ELSE Len(store),
                         part, text, expr_value, pos))

\* add_draggable_object: appended with id = object_id, which is the number of
\* objects appended so far
add_draggable_object(store, group, part, text, expr_value, pos) ==
    Append(store, Object(Len(store), group, part, text, expr_value, pos))

\* draggable_terms[label] = {...}: a label already present keeps its place in
\* the dict and has its value replaced
dict_setitem(store, label, expr_value, pos) ==
    IF \E k \in 1..Len(store) : store[k].text = label
    THEN LET k == CHOOSE k \in 1..Len(store) : store[k].text = label
         IN  [store EXCEPT ![k] =
                 Object(store[k].id, NoGroup, "single", label, expr_value, pos)]
    ELSE Append(store, Object(Len(store), NoGroup, "single", label, expr_value, pos))

\* variant 1: one token per ordered term, at (200 + i*150, 200)
RECURSIVE Decompose1(_, _, _)
Decompose1(terms, i, store) ==
    IF i >= Len(terms) THEN store
    ELSE LET term == terms[i + 1]
         IN  Decompose1(terms, i + 1,
                 dict_setitem(store, Str(term), term,
                              <<FirstX1 + i * Pitch12, TokenY>>))

\* variant 2: a product containing x with a coefficient other than 1 and -1
\* is split into a coeff token and a var token of one group
RECURSIVE Decompose2(_, _, _, _)
Decompose2(terms, k, store, group_id) ==
    IF k > Len(terms) THEN store
    ELSE LET term == terms[k]
             coeff == term.q
             var_part == Mono(Rat(1), term.a)
             gx == FirstX23 + group_id * Pitch12
         IN  IF Has_x(term) /\ Is_Mul(term)
             THEN IF coeff # Rat(1) /\ coeff # Rat(-1)
                  THEN Decompose2(terms, k + 1,
                         add_draggable_object(
                           add_draggable_object(store, group_id, "coeff",
                               Str(Mono(coeff, One)), Integer(coeff),
                               <<gx, TokenY>>),
                           group_id, "var", Str(var_part), var_part,
                           <<gx + VarOffset, TokenY>>),
                         group_id + 1)
                  ELSE Decompose2(terms, k + 1,
                         add_draggable_object(store, NoGroup, "single",
                               Str(term), term, <<gx, TokenY>>),
                         group_id + 1)
             ELSE Decompose2(terms, k + 1,
                    add_draggable_object(store, NoGroup, "single",
                          Str(term), term, <<gx, TokenY>>),
                    group_id + 1)

\* the heads variant 3 treats directly as function terms
DirectFunctions == {"sin", "cos", "tan", "exp", "tanh"}

\* variant 3: as variant 2, and a function term becomes a "func" token that
\* carries a group id of its own
RECURSIVE Decompose3(_, _, _, _)
Decompose3(terms, k, store, group_id) ==
    IF k > Len(terms) THEN store
    ELSE LET term == terms[k]
             coeff == term.q
             rest == Mono(Rat(1), term.a)
             gx == FirstX23 + group_id * Pitch3
         IN  IF Has_x(term) /\ Is_Mul(term)
             THEN IF coeff \notin {Rat(1), Rat(-1)}
                  THEN Decompose3(terms, k + 1,
                         add_draggable_object(
                           add_draggable_object(store, group_id, "coeff",
                               Str(Mono(coeff, One)), Integer(coeff),
                               <<gx, TokenY>>),
                           group_id, "var", Str(rest), rest,
                           <<gx + VarOffset, TokenY>>),
                         group_id + 1)
                  ELSE IF Is_Function(rest)
                  THEN Decompose3(terms, k + 1,
                         add_draggable_object(store, group_id, "func",
                               Str(rest), rest, <<gx, TokenY>>),
                         group_id + 1)
                  ELSE Decompose3(terms, k + 1,
                         add_draggable_object(store, NoGroup, "single",
                               Str(term), term, <<gx, TokenY>>),
                         group_id + 1)
             ELSE IF term.q = Rat(1) /\ term.a.f \in DirectFunctions
             THEN Decompose3(terms, k + 1,
                    add_draggable_object(store, group_id, "func",
                          Str(term), term, <<gx, TokenY>>),
                    group_id + 1)
             ELSE Decompose3(terms, k + 1,
                    add_draggable_object(store, NoGroup, "single",
                          Str(term), term, <<gx, TokenY>>),
                    group_id + 1)

Decompose(v, terms) ==
    CASE v = 1 -> Decompose1(terms, 0, <<>>)
      [] v = 2 -> Decompose2(terms, 1, <<>>, 0)
      [] v = 3 -> Decompose3(terms, 1, <<>>, 0)

----------------------------------------------------------------------------
(* Reconstruction *)

Sign(obj) == IF obj.location = "lhs" THEN 1 ELSE -1

\* [o for o in draggable_objects if o["group"] == group], as store indices
GroupObjs(store, group) == {k \in 1..Len(store) : store[k].group = group}

\* next(...): the first object of a set of store indices
First(S) == CHOOSE k \in S : \A j \in S : k <= j

\* variant 1: a term on lhs is added, a term on rhs subtracted
RECURSIVE UpdateEquation1(_, _, _)
UpdateEquation1(store, k, lhs_expr) ==
    IF k > Len(store) THEN lhs_expr
    ELSE UpdateEquation1(store, k + 1,
             Add(lhs_expr, MonoSign(Sign(store[k]), store[k].expr)))

\* GroupTerm2 with the sign taken from the coefficient part
GroupTerm2_SignOfCoeff(store, group) ==
    LET group_objs == GroupObjs(store, group)
        coeff_obj == store[First({k \in group_objs : store[k].part = "coeff"})]
        var_obj == store[First({k \in group_objs : store[k].part = "var"})]
        effective_factor ==
            IF coeff_obj.location = var_obj.location
            THEN coeff_obj.expr ELSE MonoInv(coeff_obj.expr)
        effective_term == MonoMul(effective_factor, var_obj.expr)
    IN  MonoSign(Sign(coeff_obj), effective_term)

\* variant 2, one group: coefficient * variable on one side, variable divided
\* by coefficient when split, signed by the side of the variable part.  The
\* two next(...) lookups need a coeff and a var object, which every group of
\* two that decomposition builds has.
GroupTerm2(store, group) ==
    LET group_objs == GroupObjs(store, group)
        coeff_obj == store[First({k \in group_objs : store[k].part = "coeff"})]
        var_obj == store[First({k \in group_objs : store[k].part = "var"})]
        effective_factor ==
            IF coeff_obj.location = var_obj.location
            THEN coeff_obj.expr ELSE MonoInv(coeff_obj.expr)
        effective_term == MonoMul(effective_factor, var_obj.expr)
    IN  MonoSign(Sign(var_obj), effective_term)

\* variant 2, first loop: the grouped objects, each group once
RECURSIVE UpdateGroups2(_, _, _, _)
UpdateGroups2(store, k, lhs_expr, processed_groups) ==
    IF k > Len(store) THEN lhs_expr
    ELSE LET obj == store[k]
         IN  IF obj.group = NoGroup \/ obj.group \in processed_groups
                \/ Cardinality(GroupObjs(store, obj.group)) # 2
             THEN UpdateGroups2(store, k + 1, lhs_expr, processed_groups)
             ELSE UpdateGroups2(store, k + 1,
                      Add(lhs_expr, GroupTerm2(store, obj.group)),
                      processed_groups \cup {obj.group})

\* variant 2, second loop: the single objects
RECURSIVE UpdateSingles2(_, _, _)
UpdateSingles2(store, k, lhs_expr) ==
    IF k > Len(store) THEN lhs_expr
    ELSE IF store[k].group = NoGroup
    THEN UpdateSingles2(store, k + 1,
             Add(lhs_expr, MonoSign(Sign(store[k]), store[k].expr)))
    ELSE UpdateSingles2(store, k + 1, lhs_expr)

UpdateEquation2(store) ==
    UpdateSingles2(store, 1, UpdateGroups2(store, 1, Zero, {}))

\* inverse_mapping
HasInverse(f) == f \in {"sin", "cos", "tan", "exp", "tanh"}
inverse_mapping(f) ==
    CASE f = "sin" -> "asin"
      [] f = "cos" -> "acos"
      [] f = "tan" -> "atan"
      [] f = "exp" -> "log"
      [] f = "tanh" -> "atanh"

\* process_object: the inverse function of an inverted "func" object
process_object(obj) ==
    IF obj.inverted /\ obj.part = "func" /\ HasInverse(obj.expr.a.f)
    THEN Mono(Rat(1), Fn(inverse_mapping(obj.expr.a.f), obj.expr.a.arg))
    ELSE obj.expr

\* variant 3, a group of two with a coeff object and another object
GroupTerm3(coeff_obj, other_obj) ==
    LET effective ==
            IF coeff_obj.location = other_obj.location
            THEN MonoMul(coeff_obj.expr, other_obj.expr)
            ELSE MonoDiv(other_obj.expr, coeff_obj.expr)
    IN  MonoSign(Sign(other_obj), effective)

\* variant 3, the objects of an incomplete group, processed individually
RECURSIVE AddIndividually(_, _, _)
AddIndividually(store, S, lhs_expr) ==
    IF S = {} THEN lhs_expr
    ELSE LET k == First(S)
         IN  AddIndividually(store, S \ {k},
                 Add(lhs_expr, MonoSign(Sign(store[k]), process_object(store[k]))))

\* variant 3, what one group adds to lhs_expr
AddGroup3(store, group, lhs_expr) ==
    LET group_objs == GroupObjs(store, group)
        coeffs == {k \in group_objs : store[k].part = "coeff"}
        others == {k \in group_objs : store[k].part # "coeff"}
    IN  IF Cardinality(group_objs) = 2
        THEN IF coeffs # {} /\ others # {}
             THEN Add(lhs_expr, GroupTerm3(store[First(coeffs)], store[First(others)]))
             ELSE lhs_expr
        ELSE AddIndividually(store, group_objs, lhs_expr)

RECURSIVE UpdateEquation3(_, _, _, _)
UpdateEquation3(store, k, lhs_expr, processed_groups) ==
    IF k > Len(store) THEN lhs_expr
    ELSE LET obj == store[k]
         IN  IF obj.group # NoGroup
             THEN IF obj.group \in processed_groups
                  THEN UpdateEquation3(store, k + 1, lhs_expr, processed_groups)
                  ELSE UpdateEquation3(store, k + 1,
                           AddGroup3(store, obj.group, lhs_expr),
                           processed_groups \cup {obj.group})
             ELSE UpdateEquation3(store, k + 1,
                      Add(lhs_expr, MonoSign(Sign(obj), process_object(obj))),
                      processed_groups)

\* the equation update_equation returns
update_equation(v, store) ==
    CASE v = 1 -> Eq(UpdateEquation1(store, 1, Zero))
      [] v = 2 -> Eq(UpdateEquation2(store))
      [] v = 3 -> Eq(UpdateEquation3(store, 1, Zero, {}))

----------------------------------------------------------------------------
(* History entries and the stored solution *)

NoSol == [op |-> "None", of |-> NoEq]
\* what sp.solve, sp.integrate or sp.diff returns for an equation
Sol(op, eq) == [op |-> op, of |-> eq]

Entry(kind, eq, sol) == [kind |-> kind, eq |-> eq, sol |-> sol]
Updated(eq) == Entry("Updated", eq, NoSol)

\* the entry a successful operation appends
Done(op, eq) == Entry(op, eq, Sol(op, eq))
\* the entry variant 3 appends when the operation raises
Failed(op) == Entry("Error", NoEq, Sol(op, NoEq))

\* history[:5], the first entries instead of the last
RecentHistory_FirstFive(h) ==
    [i \in 1..(IF Len(h) > HistoryWindow THEN HistoryWindow ELSE Len(h)) |-> h[i]]

\* history[-5:]
RecentHistory(h) ==
    LET start == IF Len(h) > HistoryWindow THEN Len(h) - HistoryWindow ELSE 0
    IN  [i \in 1..(Len(h) - start) |-> h[start + i]]

----------------------------------------------------------------------------
(* Initial expressions *)

Coeffs == {-2, -1, 1, 3}
AtomUniverse == {One, SymX, Fn("sin", "x"), Fn("log", "x"), Fn("Mul", "x*sin(x)")}
TermUniverse == {Term(c, a) : c \in Coeffs, a \in AtomUniverse}

\* the ordered terms of a sum: like terms are collected, so no atom twice
OrderedTerms(n) ==
    UNION {{t \in [1..k -> TermUniverse] :
               \A i, j \in 1..k : i # j => t[i].a # t[j].a} : k \in 1..n}

\* the expression each file ships with
DefaultExpr(v) ==
    CASE v = 1 -> <<Term(2, SymX), Term(-2, One)>>
      [] v = 2 -> <<Term(2, SymX), Term(3, One)>>
      [] v = 3 -> <<Term(2, Fn("sin", "x")), Term(3, Fn("cos", "x")),
                    Term(1, Fn("exp", "x")), Term(1, Fn("tanh", "x"))>>

StartupExprs == OrderedTerms(MaxTerms) \cup {DefaultExpr(v) : v \in 1..3}

MainExprs ==
    { <<Term(2, SymX), Term(3, One)>>,
      <<Term(2, Fn("sin", "x")), Term(1, Fn("exp", "x"))>>,
      <<Term(1, Fn("tanh", "x")), Term(-1, SymX)>> }

\* pointer positions
MouseXs(v) == {120, 255, 320, WIDTH(v) \div 2}
MouseYs == {TokenY}
Keys == {"s", "i", "d", "a"}
Outcomes == {"returns", "raises"}

----------------------------------------------------------------------------
(* The program *)

InitWith(exprs) ==
    /\ variant \in 1..3
    /\ terms_list \in exprs
    /\ draggable_objects = Decompose(variant, terms_list)
    /\ dragging = FALSE
    /\ selected_object = NoSelection
    /\ solution = NoSol
    /\ history = <<>>
    /\ running = TRUE
    /\ pc = "loop"

\* Hit with the edges of the box counted as inside
Hit_Inclusive(obj, mx, my) ==
    /\ obj.pos[1] - BoxLeft <= mx /\ mx <= obj.pos[1] + BoxRight
    /\ obj.pos[2] - BoxUp <= my /\ my <= obj.pos[2] + BoxDown

\* the hit test of one object
Hit(obj, mx, my) ==
    /\ obj.pos[1] - BoxLeft < mx /\ mx < obj.pos[1] + BoxRight
    /\ obj.pos[2] - BoxUp < my /\ my < obj.pos[2] + BoxDown

\* MOUSEBUTTONDOWN: the first object under the pointer is selected
MouseButtonDown(mx, my) ==
    /\ pc = "loop"
    /\ LET hits == {k \in 1..Len(draggable_objects) :
                       Hit(draggable_objects[k], mx, my)}
       IN  IF hits # {}
           THEN /\ dragging' = TRUE
                /\ selected_object' = First(hits)
           ELSE UNCHANGED <<dragging, selected_object>>
    /\ UNCHANGED <<variant, terms_list, draggable_objects, solution, history,
                   running, pc>>

\* Dropped marking every object dropped on rhs as inverted, whatever its part
Dropped_AnyPart(v, obj) ==
    LET location == IF obj.pos[1] < WIDTH(v) \div 2 THEN "lhs" ELSE "rhs"
    IN  IF v = 3
        THEN [obj EXCEPT !.location = location, !.inverted = (location = "rhs")]
        ELSE [obj EXCEPT !.location = location]

\* Dropped comparing with <= : a token exactly on the midline stays on lhs
Dropped_MidlineIsLhs(v, obj) ==
    LET location == IF obj.pos[1] <= WIDTH(v) \div 2 THEN "lhs" ELSE "rhs"
    IN  IF v = 3 /\ obj.part = "func"
        THEN [obj EXCEPT !.location = location, !.inverted = (location = "rhs")]
        ELSE [obj EXCEPT !.location = location]

\* Dropped toggling the inversion flag on each drop on rhs
Dropped_Toggle(v, obj) ==
    LET location == IF obj.pos[1] < WIDTH(v) \div 2 THEN "lhs" ELSE "rhs"
    IN  IF v = 3 /\ obj.part = "func"
        THEN [obj EXCEPT !.location = location,
                         !.inverted = IF location = "rhs" THEN ~obj.inverted
                                      ELSE FALSE]
        ELSE [obj EXCEPT !.location = location]

\* Dropped rewriting the stored expression and label of an inverted function
\* instead of flagging it
Dropped_RewritesExpr(v, obj) ==
    LET location == IF obj.pos[1] < WIDTH(v) \div 2 THEN "lhs" ELSE "rhs"
        inv == Mono(Rat(1), Fn(inverse_mapping(obj.expr.a.f), obj.expr.a.arg))
    IN  IF v = 3 /\ obj.part = "func"
        THEN IF location = "rhs" /\ HasInverse(obj.expr.a.f)
             THEN [obj EXCEPT !.location = location, !.expr = inv, !.text = Str(inv)]
             ELSE [obj EXCEPT !.location = location]
        ELSE [obj EXCEPT !.location = location]

\* Dropped never clearing the inversion flag once it is set
Dropped_StickyInversion(v, obj) ==
    LET location == IF obj.pos[1] < WIDTH(v) \div 2 THEN "lhs" ELSE "rhs"
    IN  IF v = 3 /\ obj.part = "func"
        THEN [obj EXCEPT !.location = location,
                         !.inverted = (obj.inverted \/ location = "rhs")]
        ELSE [obj EXCEPT !.location = location]

\* the object a drop leaves behind
Dropped(v, obj) ==
    LET location == IF obj.pos[1] < WIDTH(v) \div 2 THEN "lhs" ELSE "rhs"
    IN  IF v = 3 /\ obj.part = "func"
        THEN [obj EXCEPT !.location = location, !.inverted = (location = "rhs")]
        ELSE [obj EXCEPT !.location = location]

\* MOUSEBUTTONUP: the selected object takes the side it was dropped on and
\* the equation is rebuilt
MouseButtonUp(cap) ==
    /\ pc = "loop"
    /\ dragging' = FALSE
    /\ IF selected_object # NoSelection
       THEN /\ Len(history) < cap
            /\ draggable_objects' =
                   [draggable_objects EXCEPT ![selected_object] =
                       Dropped(variant, draggable_objects[selected_object])]
            /\ history' = Append(history,
                   Updated(update_equation(variant, draggable_objects')))
       ELSE UNCHANGED <<draggable_objects, history>>
    /\ selected_object' = NoSelection
    /\ UNCHANGED <<variant, terms_list, solution, running, pc>>

\* MOUSEMOTION while dragging: the selected object follows the pointer; with
\* nothing selected the subscript raises and ends the program
MouseMotion(mx, my) ==
    /\ pc = "loop"
    /\ dragging
    /\ IF selected_object # NoSelection
       THEN /\ draggable_objects' =
                   [draggable_objects EXCEPT ![selected_object].pos = <<mx, my>>]
            /\ pc' = pc
       ELSE /\ pc' = "crashed"
            /\ UNCHANGED draggable_objects
    /\ UNCHANGED <<variant, terms_list, dragging, selected_object, solution,
                   history, running>>

\* the operation a key asks for
Operation(v, key) ==
    CASE key = "s" -> "solve"
      [] key = "i" /\ v = 3 -> "integrate"
      [] key = "d" /\ v = 3 -> "diff"
      [] OTHER -> "none"

\* the operations of variant 3 without their try / except
Guarded_Propagates(op, eq, outcome, sol, h, p) ==
    IF outcome = "returns"
    THEN <<Sol(op, eq), Append(h, Done(op, eq)), p>>
    ELSE <<sol, h, "crashed">>

\* solve_eq, integrate_eq, differentiate_eq (variant 3): a failure of the
\* library call is caught and logged; <<solution, history, pc>> afterwards
Guarded(op, eq, outcome, sol, h, p) ==
    IF outcome = "returns"
    THEN <<Sol(op, eq), Append(h, Done(op, eq)), p>>
    ELSE <<sol, Append(h, Failed(op)), p>>

\* solve_expression, solve_equation (variants 1 and 2): a failure of the
\* library call propagates out of the loop
Unguarded(op, eq, outcome, sol, h, p) ==
    IF outcome = "returns"
    THEN <<Sol(op, eq), Append(h, Done(op, eq)), p>>
    ELSE <<sol, h, "crashed">>

\* KEYDOWN: S (and I, D in variant 3) rebuilds the equation and runs the
\* operation on it
KeyDown(key, outcome, cap) ==
    /\ pc = "loop"
    /\ LET op == Operation(variant, key)
           eq == update_equation(variant, draggable_objects)
           h == Append(history, Updated(eq))
           after == IF variant = 3
                    THEN Guarded(op, eq, outcome, solution, h, pc)
                    ELSE Unguarded(op, eq, outcome, solution, h, pc)
       IN  IF op = "none"
           THEN UNCHANGED <<solution, history, pc>>
           ELSE /\ Len(history) + 2 <= cap
                /\ solution' = after[1]
                /\ history' = after[2]
                /\ pc' = after[3]
    /\ UNCHANGED <<variant, terms_list, draggable_objects, dragging,
                   selected_object, running>>

\* QUIT: the loop ends after the events still queued for this frame
Quit ==
    /\ pc = "loop"
    /\ running
    /\ running' = FALSE
    /\ UNCHANGED <<variant, terms_list, draggable_objects, dragging,
                   selected_object, solution, history, pc>>

\* while running: the loop condition fails
LoopExit ==
    /\ pc = "loop"
    /\ ~running
    /\ pc' = "exited"
    /\ UNCHANGED <<variant, terms_list, draggable_objects, dragging,
                   selected_object, solution, history, running>>

NextWith(cap) ==
    \/ \E mx \in MouseXs(variant), my \in MouseYs : MouseButtonDown(mx, my)
    \/ MouseButtonUp(cap)
    \/ \E mx \in MouseXs(variant), my \in MouseYs : MouseMotion(mx, my)
    \/ \E key \in Keys, outcome \in Outcomes : KeyDown(key, outcome, cap)
    \/ Quit
    \/ LoopExit

Init == InitWith(MainExprs)
Next == NextWith(MaxHistory)
Spec == Init /\ [][Next]_vars

\* a session long enough to move every token of a small expression across
\* and back
RoundTripExprs ==
    { <<Term(2, Fn("sin", "x"))>>,
      <<Term(1, Fn("exp", "x"))>>,
      <<Term(1, Fn("exp", "x")), Term(3, One)>> }
InitRoundTrip == InitWith(RoundTripExprs)
NextRoundTrip == NextWith(MaxRoundTrip)
SpecRoundTrip == InitRoundTrip /\ [][NextRoundTrip]_vars

\* a session long enough for the log to outgrow its window
LogExprs == { <<Term(1, Fn("exp", "x"))>> }
InitLog == InitWith(LogExprs)
NextLog == NextWith(MaxLog)
SpecLog == InitLog /\ [][NextLog]_vars

\* a session whose pointer visits the overlap of two boxes (x = 200 is in
\* the box of a token at 150 and of one at 210), the edges of boxes (x = 250
\* and y = 240 for a token at (150, 200)) and the midline
PointerExprs == { <<Term(2, SymX)>>, <<Term(1, SymX), Term(3, One)>> }
PointerXs(v) == {200, 250, WIDTH(v) \div 2}
PointerYs == {TokenY, TokenY + BoxDown}
InitPointer == InitWith(PointerExprs)
NextPointer ==
    \/ \E mx \in PointerXs(variant), my \in PointerYs : MouseButtonDown(mx, my)
    \/ MouseButtonUp(MaxHistory)
    \/ \E mx \in PointerXs(variant), my \in PointerYs : MouseMotion(mx, my)
    \/ \E key \in Keys, outcome \in Outcomes : KeyDown(key, outcome, MaxHistory)
    \/ Quit
    \/ LoopExit
SpecPointer == InitPointer /\ [][NextPointer]_vars

\* startup followed by one key press: decomposition and the first
\* reconstruction, over every initial expression of the bounded universe
InitStartup == InitWith(StartupExprs)
NextStartup ==
    /\ history = <<>>
    /\ \E key \in Keys, outcome \in Outcomes :
           KeyDown(key, outcome, Len(history) + 2)
SpecStartup == InitStartup /\ [][NextStartup]_vars

----------------------------------------------------------------------------
(* Claims *)

\* the sum of the ordered terms of the initial expression
RECURSIVE SumOfTerms(_, _)
SumOfTerms(terms, k) ==
    IF k > Len(terms) THEN Zero
    ELSE Add(SumOfTerms(terms, k + 1), terms[k])

AllOnLhs == \A k \in 1..Len(draggable_objects) : draggable_objects[k].location = "lhs"

\* C1: with every token still on lhs, the first reconstruction after startup
\* is the equation (original expression) = 0, in each of the three variants.
C1_ReproducesOriginal ==
    (history # <<>> /\ AllOnLhs)
        => history[1] = Updated(Eq(SumOfTerms(terms_list, 1)))

\* the equation update_equation returns in the current state
CurrentEquation == update_equation(variant, draggable_objects)

Last(h) == h[Len(h)]

\* the groups of one coeff token and one remainder token, as pairs of indices
CoeffRemainderPairs ==
    {p \in (1..Len(draggable_objects)) \X (1..Len(draggable_objects)) :
        /\ draggable_objects[p[1]].group # NoGroup
        /\ draggable_objects[p[1]].group = draggable_objects[p[2]].group
        /\ draggable_objects[p[1]].part = "coeff"
        /\ draggable_objects[p[2]].part # "coeff"}

\* no token outside the pair contributes a multiple of the atom a
AloneOnAtom(p, a) ==
    \A k \in 1..Len(draggable_objects) :
        k \notin {p[1], p[2]} =>
            /\ draggable_objects[k].expr.a # a
            /\ process_object(draggable_objects[k]).a # a

\* what the claim says a group of coefficient c and remainder atom r
\* contributes: a rational q with q = c on one side and q = 1/c when split,
\* negated when the remainder is on rhs
IsGroupCoefficient(q, c, same, remainder_side) ==
    LET s == IF remainder_side = "lhs" THEN 1 ELSE -1
    IN  IF same THEN q = <<s * c, 1>>
        ELSE q[1] * c = s * q[2] /\ q[2] > 0

\* C2: in variants 2 and 3 a coeff/remainder group adds c*r when its tokens
\* share a side and r/c when they are split, signed by the remainder's side
\* alone; 2x+3 with only the token 2 on rhs gives x/2 + 3 = 0.
C2_GroupContribution ==
    variant \in {2, 3} =>
        /\ \A p \in CoeffRemainderPairs :
             LET coeff_obj == draggable_objects[p[1]]
                 rem_obj == draggable_objects[p[2]]
             IN  AloneOnAtom(p, rem_obj.expr.a) =>
                   /\ Cardinality({m \in CurrentEquation.lhs : m.a = rem_obj.expr.a}) = 1
                   /\ IsGroupCoefficient(
                          Coefficient(CurrentEquation.lhs, rem_obj.expr.a),
                          coeff_obj.expr.q[1],
                          coeff_obj.location = rem_obj.location,
                          rem_obj.location)
        /\ (/\ terms_list = <<Term(2, SymX), Term(3, One)>>
            /\ draggable_objects[1].location = "rhs"
            /\ draggable_objects[2].location = "lhs"
            /\ draggable_objects[3].location = "lhs")
               => CurrentEquation = Eq({Mono(<<1, 2>>, SymX), Mono(<<3, 1>>, One)})

\* 2x+3 with only the token 2 dropped on rhs, the drop just logged
C2_Witness ==
    /\ variant = 2
    /\ terms_list = <<Term(2, SymX), Term(3, One)>>
    /\ draggable_objects[1].location = "rhs"
    /\ draggable_objects[2].location = "lhs"
    /\ draggable_objects[3].location = "lhs"
    /\ history # <<>>
    /\ Last(history) = Updated(Eq({Mono(<<1, 2>>, SymX), Mono(<<3, 1>>, One)}))

\* the pairs whose remainder is a function with a mapped inverse
FunctionPairs ==
    {p \in CoeffRemainderPairs : HasInverse(draggable_objects[p[2]].expr.a.f)}

InverseAtom(a) == Fn(inverse_mapping(a.f), a.arg)

InitialEquation == update_equation(variant, Decompose(variant, terms_list))

\* C4: once every token has been dropped on rhs and then back on lhs, in any
\* order, update_equation returns the equation of the initial
\* reconstruction, and in variant 3 every inversion flag is false again.
C4_RoundTrip ==
    AllOnLhs =>
        /\ CurrentEquation = InitialEquation
        /\ \A k \in 1..Len(draggable_objects) : ~draggable_objects[k].inverted

\* exp(x) + 3 in variant 3: the log shows the all-rhs equation -log(x) - 3 = 0
\* and, after it, the initial equation again, every token back on lhs
C4_Witness ==
    /\ variant = 3
    /\ terms_list = <<Term(1, Fn("exp", "x")), Term(3, One)>>
    /\ AllOnLhs
    /\ \A k \in 1..Len(draggable_objects) :
           draggable_objects[k].pos[1] < WIDTH3 \div 2
    /\ Len(history) >= 4
    /\ \E i \in 1..Len(history) :
           history[i] = Updated(Eq({Mono(<<-1, 1>>, Fn("log", "x")),
                                    Mono(<<-3, 1>>, One)}))
    /\ Last(history) = Updated(Eq({Mono(<<1, 1>>, Fn("exp", "x")),
                                   Mono(<<3, 1>>, One)}))

\* the tokens that carry the group id g
Members(g) == {k \in 1..Len(draggable_objects) : draggable_objects[k].group = g}
GroupIds == {draggable_objects[k].group : k \in 1..Len(draggable_objects)} \ {NoGroup}
Parts(S) == {draggable_objects[k].part : k \in S}

FailingKeyPress(cap) ==
    /\ variant = 3
    /\ \E key \in {"s", "i", "d"} : KeyDown(key, "raises", cap)

\* C6: in variant 3 a failing solve, integrate or differentiate call is not
\* propagated: the loop keeps running, history gets the reconstruction entry
\* followed by exactly one failure entry, and the stored solution and every
\* token keep their values.
C6_FailureIsLogged ==
    [][FailingKeyPress(MaxHistory) =>
          /\ pc' = "loop"
          /\ running' = running
          /\ Len(history') = Len(history) + 2
          /\ SubSeq(history', 1, Len(history)) = history
          /\ history'[Len(history) + 1] = Updated(CurrentEquation)
          /\ history'[Len(history) + 2].kind = "Error"
          /\ solution' = solution
          /\ draggable_objects' = draggable_objects
          /\ dragging' = dragging
          /\ selected_object' = selected_object]_vars

\* variant 3 still in its loop, the log ending with the reconstruction and
\* the failure entry of a failed key press, no solution stored
C6_Witness ==
    /\ variant = 3
    /\ pc = "loop"
    /\ Len(history) >= 2
    /\ Last(history).kind = "Error"
    /\ history[Len(history) - 1] = Updated(CurrentEquation)
    /\ solution = NoSol

\* C7: history is append-only, and what a frame displays is its last
\* min(5, length) entries in insertion order.
C7_AppendOnlyBoundedWindow ==
    /\ [][/\ Len(history') >= Len(history)
          /\ SubSeq(history', 1, Len(history)) = history]_vars
    /\ [](LET shown == RecentHistory(history)
              n == IF Len(history) < 5 THEN Len(history) ELSE 5
          IN  /\ Len(shown) = n
              /\ \A i \in 1..n : shown[i] = history[Len(history) - n + i])

\* a log of more than five entries of which the first differs from every
\* entry shown
C7_Witness ==
    /\ Len(history) > 5
    /\ Len(RecentHistory(history)) = 5
    /\ \A i \in 1..5 : RecentHistory(history)[i] # history[1]

\* the fields of a token that identify it
Identity(obj) == <<obj.id, obj.group, obj.part, obj.text, obj.expr>>

\* C8: after startup no event adds or removes a token or changes a token's
\* identity, group id, role, label or symbolic value, and identities stay
\* pairwise distinct.
C8_StoreIsFixed ==
    /\ [][/\ Len(draggable_objects') = Len(draggable_objects)
          /\ \A k \in 1..Len(draggable_objects) :
                 Identity(draggable_objects'[k]) = Identity(draggable_objects[k])]_vars
    /\ [](\A j, k \in 1..Len(draggable_objects) :
              j # k => draggable_objects[j].id # draggable_objects[k].id)

\* variant 3 with a func token dragged to the midline, dropped there on rhs
\* and inverted, the drop logged, beside a group of two
C8_Witness ==
    /\ variant = 3
    /\ \E k \in 1..Len(draggable_objects) :
           /\ draggable_objects[k].part = "func"
           /\ draggable_objects[k].location = "rhs"
           /\ draggable_objects[k].inverted
           /\ draggable_objects[k].pos[1] = WIDTH3 \div 2
           /\ draggable_objects[k].id = k - 1
    /\ CoeffRemainderPairs # {}
    /\ history # <<>>
    /\ Last(history) = Updated(CurrentEquation)

\* C9: a pointer-up with a token selected ends the drag, puts that token on
\* lhs if its x is strictly less than WIDTH // 2 and on rhs otherwise, leaves
\* every other token's side and position alone and appends exactly one
\* entry to history; with no token selected it changes no token and appends
\* nothing.
C9_PointerUp ==
    [][MouseButtonUp(MaxHistory) =>
          /\ dragging' = FALSE
          /\ selected_object' = NoSelection
          /\ IF selected_object # NoSelection
             THEN /\ draggable_objects'[selected_object].location =
                         (IF draggable_objects[selected_object].pos[1]
                                 < (IF variant = 3 THEN 600 ELSE 500)
                          THEN "lhs" ELSE "rhs")
                  /\ draggable_objects'[selected_object].pos =
                         draggable_objects[selected_object].pos
                  /\ \A k \in 1..Len(draggable_objects) :
                         k # selected_object =>
                             draggable_objects'[k] = draggable_objects[k]
                  /\ Len(history') = Len(history) + 1
                  /\ SubSeq(history', 1, Len(history)) = history
             ELSE /\ draggable_objects' = draggable_objects
                  /\ history' = history]_vars

\* a token dropped exactly on the midline, hence on rhs, the drop logged and
\* the selection cleared
C9_Witness ==
    /\ ~dragging
    /\ selected_object = NoSelection
    /\ history # <<>>
    /\ Last(history) = Updated(CurrentEquation)
    /\ \E k \in 1..Len(draggable_objects) :
           /\ draggable_objects[k].pos[1] = WIDTH(variant) \div 2
           /\ draggable_objects[k].location = "rhs"
    /\ \E k \in 1..Len(draggable_objects) :
           /\ draggable_objects[k].pos[1] < WIDTH(variant) \div 2
           /\ draggable_objects[k].location = "lhs"
           /\ draggable_objects[k].pos # Decompose(variant, terms_list)[k].pos

\* the standalone function tokens: role func, function in the inverse mapping
StandaloneFunctions ==
    {k \in 1..Len(draggable_objects) :
        /\ draggable_objects[k].part = "func"
        /\ HasInverse(draggable_objects[k].expr.a.f)}

\* no other token contributes a multiple of the atom a
OnlyOnAtom(k, a) ==
    \A j \in 1..Len(draggable_objects) :
        j # k => /\ draggable_objects[j].expr.a # a
                 /\ process_object(draggable_objects[j]).a # a

\* C10: in variant 3 a standalone function token f(a) contributes +f(a)
\* whenever it is on lhs and -g(a), g the mapped inverse, whenever it is on
\* rhs; its flag is true exactly when it is on rhs, and the flag of every
\* other token stays false.
C10_StandaloneFunction ==
    variant = 3 =>
        /\ \A k \in StandaloneFunctions :
             LET obj == draggable_objects[k]
                 fa == obj.expr.a
                 ga == InverseAtom(fa)
             IN  /\ obj.inverted <=> obj.location = "rhs"
                 /\ (OnlyOnAtom(k, fa) /\ OnlyOnAtom(k, ga)) =>
                      IF obj.location = "lhs"
                      THEN /\ Coefficient(CurrentEquation.lhs, fa) = <<1, 1>>
                           /\ Coefficient(CurrentEquation.lhs, ga) = <<0, 1>>
                      ELSE /\ Coefficient(CurrentEquation.lhs, ga) = <<-1, 1>>
                           /\ Coefficient(CurrentEquation.lhs, fa) = <<0, 1>>
        /\ \A k \in 1..Len(draggable_objects) :
             draggable_objects[k].part # "func" => ~draggable_objects[k].inverted

\* exp(x) alone: dropped on rhs twice in a row (two consecutive entries
\* -log(x) = 0) and still inverted
C10_Witness ==
    /\ variant = 3
    /\ terms_list = <<Term(1, Fn("exp", "x"))>>
    /\ draggable_objects[1].location = "rhs"
    /\ draggable_objects[1].inverted
    /\ Len(history) >= 2
    /\ history[Len(history) - 1] = Updated(Eq({Mono(<<-1, 1>>, Fn("log", "x"))}))
    /\ Last(history) = Updated(Eq({Mono(<<-1, 1>>, Fn("log", "x"))}))

\* C11: whenever no drag is in progress, the initial state included, every
\* token's side agrees with its position: lhs exactly when its x is strictly
\* less than WIDTH // 2 (so that a pointer-down and pointer-up on a token
\* with no move in between changes no side and not the equation).
C11_SideAgreesWithPosition ==
    ~dragging =>
        \A k \in 1..Len(draggable_objects) :
            draggable_objects[k].location = "lhs"
                <=> draggable_objects[k].pos[1] < (IF variant = 3 THEN 600 ELSE 500)

\* the tokens whose box strictly contains the pointer
Under(mx, my) ==
    {k \in 1..Len(draggable_objects) :
        /\ draggable_objects[k].pos[1] - 50 < mx
        /\ mx < draggable_objects[k].pos[1] + 100
        /\ draggable_objects[k].pos[2] - 20 < my
        /\ my < draggable_objects[k].pos[2] + 40}

\* C12: a pointer-down selects and starts dragging the first token in store
\* order whose box strictly contains the pointer, also when several boxes
\* contain it; one contained in no box leaves dragging and the selection
\* unchanged; dragging is true exactly when a token is selected, so a
\* pointer-move never updates a position without a selected token.
C12_PointerDown ==
    /\ [][\A mx \in PointerXs(variant), my \in PointerYs :
            MouseButtonDown(mx, my) =>
              IF Under(mx, my) # {}
              THEN /\ dragging'
                   /\ selected_object' \in Under(mx, my)
                   /\ \A j \in Under(mx, my) : selected_object' <= j
              ELSE /\ dragging' = dragging
                   /\ selected_object' = selected_object]_vars
    /\ [](dragging <=> selected_object # NoSelection)
    /\ [][\A k \in 1..Len(draggable_objects) :
            draggable_objects'[k].pos # draggable_objects[k].pos
                => k = selected_object]_vars
    /\ [][(\E mx \in PointerXs(variant), my \in PointerYs : MouseMotion(mx, my))
            => selected_object # NoSelection /\ pc' = pc]_vars

\* variant 2, 2x: the coeff token at 150 selected where it was created while
\* the var token at 210 overlaps it (the pointer came down at x = 200, inside
\* both boxes)
C12_Witness ==
    /\ variant = 2
    /\ terms_list = <<Term(2, SymX)>>
    /\ dragging
    /\ selected_object = 1
    /\ draggable_objects[1].pos = <<150, 200>>
    /\ draggable_objects[2].pos = <<210, 200>>
    /\ draggable_objects[1].part = "coeff"

====
